---- MODULE Spec2Model ----
(***************************************************************************)
(* Model of the nomade_native Flutter plugin, Linux variant                *)
(* (packages/nomade_native/linux/nomade_native_plugin.cc).                 *)
(*                                                                         *)
(* C strings are sequences of ASCII codes.  A char buffer (a field of      *)
(* struct utsname) is a sequence of bytes that holds a 0 terminator.       *)
(* Everything runs on the host's single channel-handling thread, whose     *)
(* position is pc.                                                         *)
(***************************************************************************)
EXTENDS Integers, Sequences, FiniteSets, TLC

\* ---------------------------------------------------------------- bounds
MaxCalls == 2
MaxRegistrations == 1

\* ------------------------------------------------------- string literals
\* "getPlatformVersion"
STR_getPlatformVersion ==
  <<103, 101, 116, 80, 108, 97, 116, 102, 111, 114, 109, 86, 101, 114, 115, 105, 111, 110>>
\* "getplatformversion"
STR_getplatformversion ==
  <<103, 101, 116, 112, 108, 97, 116, 102, 111, 114, 109, 118, 101, 114, 115, 105, 111, 110>>
\* "getPlatformVersio"
STR_getPlatformVersio ==
  <<103, 101, 116, 80, 108, 97, 116, 102, 111, 114, 109, 86, 101, 114, 115, 105, 111>>
\* "getPlatformVersions"
STR_getPlatformVersions ==
  <<103, 101, 116, 80, 108, 97, 116, 102, 111, 114, 109, 86, 101, 114, 115, 105, 111, 110, 115>>
\* "getBatteryLevel"
STR_getBatteryLevel ==
  <<103, 101, 116, 66, 97, 116, 116, 101, 114, 121, 76, 101, 118, 101, 108>>
\* ""
STR_empty == << >>
\* "nomade_native"
STR_nomade_native ==
  <<110, 111, 109, 97, 100, 101, 95, 110, 97, 116, 105, 118, 101>>
\* "Linux "
STR_Linux_ == <<76, 105, 110, 117, 120, 32>>
\* "5.15.0-76-generic"
STR_5_15_0_76_generic ==
  <<53, 46, 49, 53, 46, 48, 45, 55, 54, 45, 103, 101, 110, 101, 114, 105, 99>>
\* "#86-Ubuntu SMP"
STR_86_Ubuntu_SMP ==
  <<35, 56, 54, 45, 85, 98, 117, 110, 116, 117, 32, 83, 77, 80>>
\* "6.1.0-13-amd64"
STR_6_1_0_13_amd64 ==
  <<54, 46, 49, 46, 48, 45, 49, 51, 45, 97, 109, 100, 54, 52>>
\* "Linux 5.15.0-76-generic"
STR_Linux_5_15_0_76_generic ==
  <<76, 105, 110, 117, 120, 32, 53, 46, 49, 53, 46, 48, 45, 55, 54, 45, 103, 101, 110, 101, 114, 105, 99>>

\* ------------------------------------------------------------ the inputs
\* Method names the host may deliver on the channel.
MethodNames ==
  { STR_getPlatformVersion, STR_getplatformversion, STR_getPlatformVersio,
    STR_getPlatformVersions, STR_getBatteryLevel, STR_empty }

\* Argument payloads of a method call (opaque to the plugin).
ArgValues == { "null", "int:42" }

\* What the operating system answers to uname(2): the release and version
\* strings of the running kernel, and whether the system call fails.
Kernels ==
  { [release |-> STR_5_15_0_76_generic, version |-> STR_86_Ubuntu_SMP],
    [release |-> STR_6_1_0_13_amd64,    version |-> STR_5_15_0_76_generic],
    [release |-> STR_6_1_0_13_amd64,    version |-> STR_empty] }

OsStates ==
  { [release |-> k.release, version |-> k.version, fails |-> FALSE] : k \in Kernels }
  \cup { [release |-> STR_5_15_0_76_generic, version |-> STR_86_Ubuntu_SMP,
          fails |-> TRUE] }

\* The call has not queried the operating system.
NoOs == [release |-> << >>, version |-> << >>, fails |-> FALSE]

\* ------------------------------------------------------------- C strings
NUL == 0

\* A char buffer holding the C string s.
CBuf(s) == s \o <<NUL>>

\* The C string a char buffer holds: the bytes before the first 0.
RECURSIVE CStr(_)
CStr(buf) ==
  IF buf = << >> \/ Head(buf) = NUL THEN << >>
  ELSE <<Head(buf)>> \o CStr(Tail(buf))

\* strncmp(3): strcmp over at most n bytes.
RECURSIVE strncmp(_, _, _)
strncmp(s1, s2, n) ==
  LET c1 == IF s1 = << >> THEN NUL ELSE Head(s1)
      c2 == IF s2 = << >> THEN NUL ELSE Head(s2)
  IN  IF n = 0 THEN 0
      ELSE IF c1 # c2 THEN c1 - c2
      ELSE IF c1 = NUL THEN 0
      ELSE strncmp(Tail(s1), Tail(s2), n - 1)

\* Variant: the comparison stops at the length of the first string, as
\* strncmp(method, "getPlatformVersion", strlen(method)) would.
strcmp_up_to_first_length(s1, s2) == strncmp(s1, s2, Len(s1))

\* strcmp(3) on two C strings: the difference of the first pair of bytes
\* that differ, the terminator included; 0 when there is none.
RECURSIVE strcmp(_, _)
strcmp(s1, s2) ==
  LET c1 == IF s1 = << >> THEN NUL ELSE Head(s1)
      c2 == IF s2 = << >> THEN NUL ELSE Head(s2)
  IN  IF c1 # c2 THEN c1 - c2
      ELSE IF c1 = NUL THEN 0
      ELSE strcmp(Tail(s1), Tail(s2))

\* ------------------------------------------------------ method responses
NullResponse == [kind |-> "nullptr"]

fl_method_not_implemented_response_new == [kind |-> "not_implemented"]

fl_value_new_string(s) == [type |-> "string", value |-> s]

fl_method_success_response_new(result) == [kind |-> "success", result |-> result]

\* struct utsname uname_data = {}: every field is a buffer of zero bytes.
utsname_zero == [release |-> <<NUL>>, version |-> <<NUL>>]

\* uname(&uname_data): fills the buffers, or fails and leaves them alone.
uname(uname_data, o) ==
  IF o.fails THEN uname_data
  ELSE [release |-> CBuf(o.release), version |-> CBuf(o.version)]

\* g_strdup_printf("Linux %s", arg)
g_strdup_printf_Linux(arg) == STR_Linux_ \o CStr(arg)

VARIABLES
  os,           \* the operating system's current uname answer
  os_changed,   \* the answer changed since get_platform_version last ran
  pc,           \* position of the host's channel-handling thread
  refs,         \* per plugin object: references taken (g_object_new, g_object_ref)
  unrefs,       \* per plugin object: references dropped (g_object_unref)
  notified,     \* per plugin object: destroy notifies run on it
  channels,     \* the method channels created on the messenger
  plugin,       \* register_with_registrar: local plugin (0 = none)
  channel,      \* register_with_registrar: local channel (0 = none)
  calls,        \* the method calls delivered so far, with what happened to them
  method_call,  \* the call the callback is handling (0 = none)
  method,       \* handle_method_call: local method
  response,     \* handle_method_call: local response
  responded,    \* ids of the calls fl_method_call_respond answered, in order
  fault         \* an object was used after its last reference was dropped

vars == << os, os_changed, pc, refs, unrefs, notified, channels, plugin, channel,
           calls, method_call, method, response, responded, fault >>

PluginIds == 1..MaxRegistrations

refcount(p) == refs[p] - unrefs[p]

NoHandler == [cb |-> "NULL", user_data |-> 0, destroy_notify |-> "NULL"]

Init ==
  /\ os \in OsStates
  /\ os_changed = FALSE
  /\ pc = "idle"
  /\ refs = [p \in PluginIds |-> 0]
  /\ unrefs = [p \in PluginIds |-> 0]
  /\ notified = [p \in PluginIds |-> 0]
  /\ channels = << >>
  /\ plugin = 0
  /\ channel = 0
  /\ calls = << >>
  /\ method_call = 0
  /\ method = "NULL"
  /\ response = NullResponse
  /\ responded = << >>
  /\ fault = FALSE

\* g_object_unref(p): drops one reference; dropping a reference the object
\* does not hold is a use after free.
g_object_unref(p) ==
  /\ unrefs' = [unrefs EXCEPT ![p] = @ + 1]
  /\ fault' = (fault \/ refcount(p) <= 0)

\* ------------------------------------- variants of get_platform_version
\* Variant: formats the release field of the utsname structure.
get_platform_version_release(o) ==
  LET uname_data == uname(utsname_zero, o)
      version    == g_strdup_printf_Linux(uname_data.release)
      result     == fl_value_new_string(version)
  IN  fl_method_success_response_new(result)

\* Variant: gives up with no response object when uname fails.
get_platform_version_checked(o) ==
  LET uname_data == uname(utsname_zero, o)
      version    == g_strdup_printf_Linux(uname_data.version)
      result     == fl_value_new_string(version)
  IN  IF o.fails THEN NullResponse
      ELSE fl_method_success_response_new(result)

\* Variant: uname_data is not zero-initialized; when uname fails the buffers
\* hold whatever the stack held.
get_platform_version_uninitialized(stack, o) ==
  LET uname_data == uname(stack, o)
      version    == g_strdup_printf_Linux(uname_data.version)
      result     == fl_value_new_string(version)
  IN  fl_method_success_response_new(result)

\* Contents a stack slot may hold.
StackGarbage ==
  { [release |-> CBuf(<<63>>), version |-> CBuf(<<63>>)],
    [release |-> CBuf(<<33, 33>>), version |-> CBuf(<<33, 33>>)] }

\* ------------------------------------------------- get_platform_version
get_platform_version(o) ==
  LET uname_data == uname(utsname_zero, o)
      version    == g_strdup_printf_Linux(uname_data.version)
      result     == fl_value_new_string(version)
  IN  fl_method_success_response_new(result)

\* --------------------------- nomade_native_plugin_register_with_registrar
\* NomadeNativePlugin* plugin = NOMADE_NATIVE_PLUGIN(g_object_new(...));
register_g_object_new ==
  /\ pc = "idle"
  /\ Len(channels) < MaxRegistrations
  /\ LET p == Len(channels) + 1 IN
       /\ plugin' = p
       /\ refs' = [refs EXCEPT ![p] = 1]
  /\ pc' = "reg_channel"
  /\ UNCHANGED << os, os_changed, unrefs, notified, channels, channel, calls,
                  method_call, method, response, responded, fault >>

\* Variant: the channel is created under the name "nomade_natives".
register_fl_method_channel_new_misnamed ==
  /\ pc = "reg_channel"
  /\ channels' = Append(channels,
                   [ name     |-> STR_nomade_native \o <<115>>,
                     codec    |-> "FlStandardMethodCodec",
                     handler  |-> NoHandler,
                     installs |-> 0 ])
  /\ channel' = Len(channels) + 1
  /\ pc' = "reg_handler"
  /\ UNCHANGED << os, os_changed, refs, unrefs, notified, plugin, calls,
                  method_call, method, response, responded, fault >>

\* codec = fl_standard_method_codec_new();
\* channel = fl_method_channel_new(messenger, "nomade_native", codec);
register_fl_method_channel_new ==
  /\ pc = "reg_channel"
  /\ channels' = Append(channels,
                   [ name     |-> STR_nomade_native,
                     codec    |-> "FlStandardMethodCodec",
                     handler  |-> NoHandler,
                     installs |-> 0 ])
  /\ channel' = Len(channels) + 1
  /\ pc' = "reg_handler"
  /\ UNCHANGED << os, os_changed, refs, unrefs, notified, plugin, calls,
                  method_call, method, response, responded, fault >>

\* Variant: plugin is handed to the handler without g_object_ref.
register_set_method_call_handler_no_ref ==
  /\ pc = "reg_handler"
  /\ channels' = [channels EXCEPT
                    ![channel].handler  = [ cb             |-> "method_call_cb",
                                            user_data      |-> plugin,
                                            destroy_notify |-> "g_object_unref" ],
                    ![channel].installs = @ + 1]
  /\ pc' = "reg_unref"
  /\ UNCHANGED << os, os_changed, refs, unrefs, notified, plugin, channel, calls,
                  method_call, method, response, responded, fault >>

\* fl_method_channel_set_method_call_handler(channel, method_call_cb,
\*                                           g_object_ref(plugin),
\*                                           g_object_unref);
register_set_method_call_handler ==
  /\ pc = "reg_handler"
  /\ refs' = [refs EXCEPT ![plugin] = @ + 1]
  /\ channels' = [channels EXCEPT
                    ![channel].handler  = [ cb             |-> "method_call_cb",
                                            user_data      |-> plugin,
                                            destroy_notify |-> "g_object_unref" ],
                    ![channel].installs = @ + 1]
  /\ pc' = "reg_unref"
  /\ UNCHANGED << os, os_changed, unrefs, notified, plugin, channel, calls,
                  method_call, method, response, responded, fault >>

\* g_object_unref(plugin); and the function returns.
register_g_object_unref ==
  /\ pc = "reg_unref"
  /\ g_object_unref(plugin)
  /\ plugin' = 0
  /\ channel' = 0
  /\ pc' = "idle"
  /\ UNCHANGED << os, os_changed, refs, notified, channels, calls,
                  method_call, method, response, responded >>

\* ------------------------------------------------------- method_call_cb
\* The host delivers a method call to the handler installed on channel ch:
\* the callback casts user_data to the plugin and enters
\* nomade_native_plugin_handle_method_call.
method_call_cb(ch, name, args) ==
  /\ pc = "idle"
  /\ Len(calls) < MaxCalls
  /\ channels[ch].handler.cb = "method_call_cb"
  /\ LET self == channels[ch].handler.user_data IN
       /\ calls' = Append(calls,
                     [ name      |-> name,
                       args      |-> args,
                       queries   |-> 0,
                       responses |-> << >>,
                       os        |-> NoOs,
                       returned  |-> FALSE ])
       /\ fault' = (fault \/ refcount(self) <= 0)
  /\ method_call' = Len(calls) + 1
  /\ pc' = "handle_get_name"
  /\ UNCHANGED << os, os_changed, refs, unrefs, notified, channels, plugin,
                  channel, method, response, responded >>

\* ------------------------------ nomade_native_plugin_handle_method_call
\* g_autoptr(FlMethodResponse) response = nullptr;
\* const gchar* method = fl_method_call_get_name(method_call);
handle_get_name ==
  /\ pc = "handle_get_name"
  /\ response' = NullResponse
  /\ method' = calls[method_call].name
  /\ pc' = "handle_dispatch"
  /\ UNCHANGED << os, os_changed, refs, unrefs, notified, channels, plugin,
                  channel, calls, method_call, responded, fault >>

\* Variant: the test of the strcmp result is inverted.
handle_dispatch_inverted ==
  /\ pc = "handle_dispatch"
  /\ IF strcmp(method, STR_getPlatformVersion) # 0
       THEN /\ response' = get_platform_version(os)
            /\ calls' = [calls EXCEPT ![method_call].queries = @ + 1,
                                      ![method_call].os = os]
            /\ os_changed' = FALSE
       ELSE /\ response' = fl_method_not_implemented_response_new
            /\ UNCHANGED << calls, os_changed >>
  /\ pc' = "handle_respond"
  /\ UNCHANGED << os, refs, unrefs, notified, channels, plugin,
                  channel, method_call, method, responded, fault >>

\* Variant: get_platform_version reads a utsname that was never initialized.
handle_dispatch_uninitialized ==
  /\ pc = "handle_dispatch"
  /\ IF strcmp(method, STR_getPlatformVersion) = 0
       THEN /\ \E stack \in StackGarbage :
                 response' = get_platform_version_uninitialized(stack, os)
            /\ calls' = [calls EXCEPT ![method_call].queries = @ + 1,
                                      ![method_call].os = os]
            /\ os_changed' = FALSE
       ELSE /\ response' = fl_method_not_implemented_response_new
            /\ UNCHANGED << calls, os_changed >>
  /\ pc' = "handle_respond"
  /\ UNCHANGED << os, refs, unrefs, notified, channels, plugin,
                  channel, method_call, method, responded, fault >>

\* Variant: a call that carries arguments is not dispatched.
handle_dispatch_checks_args ==
  /\ pc = "handle_dispatch"
  /\ IF strcmp(method, STR_getPlatformVersion) = 0
        /\ calls[method_call].args = "null"
       THEN /\ response' = get_platform_version(os)
            /\ calls' = [calls EXCEPT ![method_call].queries = @ + 1,
                                      ![method_call].os = os]
            /\ os_changed' = FALSE
       ELSE /\ response' = fl_method_not_implemented_response_new
            /\ UNCHANGED << calls, os_changed >>
  /\ pc' = "handle_respond"
  /\ UNCHANGED << os, refs, unrefs, notified, channels, plugin,
                  channel, method_call, method, responded, fault >>

\* if (strcmp(method, "getPlatformVersion") == 0) response = get_platform_version();
\* else response = FL_METHOD_RESPONSE(fl_method_not_implemented_response_new());
handle_dispatch ==
  /\ pc = "handle_dispatch"
  /\ IF strcmp(method, STR_getPlatformVersion) = 0
       THEN /\ response' = get_platform_version(os)
            /\ calls' = [calls EXCEPT ![method_call].queries = @ + 1,
                                      ![method_call].os = os]
            /\ os_changed' = FALSE
       ELSE /\ response' = fl_method_not_implemented_response_new
            /\ UNCHANGED << calls, os_changed >>
  /\ pc' = "handle_respond"
  /\ UNCHANGED << os, refs, unrefs, notified, channels, plugin,
                  channel, method_call, method, responded, fault >>

\* Variant: the response is handed over a second time.
handle_respond_twice ==
  /\ pc = "handle_respond"
  /\ IF response.kind # "nullptr"
       THEN /\ calls' = [calls EXCEPT ![method_call].responses =
                           Append(Append(@, response), response)]
            /\ responded' = Append(Append(responded, method_call), method_call)
       ELSE UNCHANGED << calls, responded >>
  /\ pc' = "handle_return"
  /\ UNCHANGED << os, os_changed, refs, unrefs, notified, channels, plugin,
                  channel, method_call, method, response, fault >>

\* Variant: the handler returns without handing the response over.
handle_respond_deferred ==
  /\ pc = "handle_respond"
  /\ pc' = "handle_return"
  /\ UNCHANGED << os, os_changed, refs, unrefs, notified, channels, plugin,
                  channel, calls, method_call, method, response, responded,
                  fault >>

\* fl_method_call_respond(method_call, response, nullptr): hands the response
\* to the host; a null response is rejected and nothing is sent.
handle_respond ==
  /\ pc = "handle_respond"
  /\ IF response.kind # "nullptr"
       THEN /\ calls' = [calls EXCEPT ![method_call].responses = Append(@, response)]
            /\ responded' = Append(responded, method_call)
       ELSE UNCHANGED << calls, responded >>
  /\ pc' = "handle_return"
  /\ UNCHANGED << os, os_changed, refs, unrefs, notified, channels, plugin,
                  channel, method_call, method, response, fault >>

\* The locals go out of scope (g_autoptr drops response) and both
\* handle_method_call and method_call_cb return to the host.
handle_return ==
  /\ pc = "handle_return"
  /\ calls' = [calls EXCEPT ![method_call].returned = TRUE]
  /\ response' = NullResponse
  /\ method' = "NULL"
  /\ method_call' = 0
  /\ pc' = "idle"
  /\ UNCHANGED << os, os_changed, refs, unrefs, notified, channels, plugin,
                  channel, responded, fault >>

\* ------------------------------------------------------------- the host
\* The host removes the handler of channel ch (channel closed, engine shut
\* down): it runs the destroy notify it was given on the user data.
host_remove_handler(ch) ==
  /\ pc = "idle"
  /\ channels[ch].handler.cb # "NULL"
  /\ LET h == channels[ch].handler IN
       IF h.destroy_notify = "g_object_unref"
         THEN /\ g_object_unref(h.user_data)
              /\ notified' = [notified EXCEPT ![h.user_data] = @ + 1]
         ELSE UNCHANGED << unrefs, fault, notified >>
  /\ channels' = [channels EXCEPT ![ch].handler = NoHandler]
  /\ UNCHANGED << os, os_changed, pc, refs, plugin, channel, calls,
                  method_call, method, response, responded >>

\* The operating system's uname answer changes (kernel update through
\* kexec or live migration, a system-call filter starts rejecting uname).
os_change ==
  /\ \E o \in OsStates \ {os} : os' = o
  /\ os_changed' = TRUE
  /\ UNCHANGED << pc, refs, unrefs, notified, channels, plugin, channel,
                  calls, method_call, method, response, responded, fault >>

Next ==
  \/ register_g_object_new
  \/ register_fl_method_channel_new
  \/ register_set_method_call_handler
  \/ register_g_object_unref
  \/ \E ch \in 1..Len(channels), name \in MethodNames, args \in ArgValues :
       method_call_cb(ch, name, args)
  \/ handle_get_name
  \/ handle_dispatch
  \/ handle_respond
  \/ handle_return
  \/ \E ch \in 1..Len(channels) : host_remove_handler(ch)
  \/ os_change

Spec == Init /\ [][Next]_vars

TypeOK ==
  /\ os \in OsStates
  /\ os_changed \in BOOLEAN
  /\ pc \in { "idle", "reg_channel", "reg_handler", "reg_unref",
              "handle_get_name", "handle_dispatch", "handle_respond",
              "handle_return" }
  /\ Len(calls) <= MaxCalls
  /\ Len(channels) <= MaxRegistrations

\* ------------------------------------------------------------ properties
CallIds == 1..Len(calls)

IsGetPlatformVersion(name) == name = STR_getPlatformVersion

\* How many times fl_method_call_respond answered call i.
TimesResponded(i) == Cardinality({ k \in 1..Len(responded) : responded[k] = i })

IsStringValue(v) == v.type = "string" /\ v.value \in Seq(1..255)

IsSuccessWithString(r) == r.kind = "success" /\ IsStringValue(r.result)

\* C1: every method call, whatever its name, is answered through
\* fl_method_call_respond exactly once: never more than once at any moment,
\* and exactly once when the handler has returned.
C1_ExactlyOneResponse ==
  \A i \in CallIds :
    /\ TimesResponded(i) <= 1
    /\ Len(calls[i].responses) = TimesResponded(i)
    /\ calls[i].returned => TimesResponded(i) = 1

\* A getPlatformVersion call and a call of another name were both answered.
C1_Witness ==
  \E i, j \in CallIds :
    /\ calls[i].returned /\ calls[j].returned
    /\ IsGetPlatformVersion(calls[i].name)
    /\ ~IsGetPlatformVersion(calls[j].name)
    /\ TimesResponded(i) = 1 /\ TimesResponded(j) = 1

\* C2: a call whose name is not exactly "getPlatformVersion" never runs
\* get_platform_version and is answered with the not-implemented response
\* and nothing else.
C2_OtherNamesNotImplemented ==
  \A i \in CallIds :
    ~IsGetPlatformVersion(calls[i].name) =>
      /\ calls[i].queries = 0
      /\ \A k \in 1..Len(calls[i].responses) :
           calls[i].responses[k] = [kind |-> "not_implemented"]
      /\ calls[i].returned => calls[i].responses = << [kind |-> "not_implemented"] >>

\* A name that differs in case and a proper prefix were both answered.
C2_Witness ==
  \E i, j \in CallIds :
    /\ calls[i].returned /\ calls[j].returned
    /\ calls[i].name = STR_getplatformversion
    /\ calls[j].name = STR_getPlatformVersio
    /\ calls[i].responses = << [kind |-> "not_implemented"] >>
    /\ calls[j].responses = << [kind |-> "not_implemented"] >>

\* C3: a call named exactly "getPlatformVersion" runs get_platform_version
\* and is answered with a success response that carries a string, never
\* with the not-implemented response.
C3_GetPlatformVersionSucceeds ==
  \A i \in CallIds :
    IsGetPlatformVersion(calls[i].name) =>
      /\ \A k \in 1..Len(calls[i].responses) :
           IsSuccessWithString(calls[i].responses[k])
      /\ calls[i].returned =>
           /\ calls[i].queries = 1
           /\ Len(calls[i].responses) = 1

\* A getPlatformVersion call was answered.
C3_Witness ==
  \E i \in CallIds :
    /\ calls[i].returned
    /\ IsGetPlatformVersion(calls[i].name)
    /\ calls[i].queries = 1
    /\ IsSuccessWithString(calls[i].responses[1])

C5_UnameFailureStillAnswered ==
  /\ ~fault
  /\ \A i \in CallIds :
       ( /\ IsGetPlatformVersion(calls[i].name)
         /\ calls[i].queries > 0
         /\ calls[i].os.fails
         /\ calls[i].returned ) =>
           /\ Len(calls[i].responses) = 1
           /\ TimesResponded(i) = 1
           /\ IsSuccessWithString(calls[i].responses[1])

\* A getPlatformVersion call whose uname failed has returned.
C5_Witness ==
  \E i \in CallIds :
    /\ calls[i].returned
    /\ IsGetPlatformVersion(calls[i].name)
    /\ calls[i].os.fails
    /\ calls[i].responses[1].result.value = STR_Linux_

\* C6: every registration creates one channel named "nomade_native" with the
\* standard method codec and installs one handler, method_call_cb, on it;
\* no fault occurs.
C6_RegistrationInstallsOneHandler ==
  /\ ~fault
  /\ \A ch \in 1..Len(channels) :
       /\ channels[ch].name = STR_nomade_native
       /\ channels[ch].codec = "FlStandardMethodCodec"
       /\ channels[ch].installs <= 1
       /\ channels[ch].handler.cb \in { "NULL", "method_call_cb" }
  /\ pc = "idle" =>
       /\ Len(channels) = Cardinality({ p \in PluginIds : refs[p] > 0 })
       /\ \A ch \in 1..Len(channels) : channels[ch].installs = 1

\* A registration has returned with its handler installed.
C6_Witness ==
  /\ pc = "idle"
  /\ Len(channels) >= 1
  /\ channels[1].installs = 1
  /\ channels[1].handler.cb = "method_call_cb"
  /\ channels[1].name = STR_nomade_native

\* C7: a getPlatformVersion call that directly follows another one, with the
\* operating system unchanged in between, gets the same response.
C7_Deterministic ==
  [][ ( /\ pc = "handle_dispatch"
        /\ pc' = "handle_respond"
        /\ method_call > 1
        /\ IsGetPlatformVersion(calls[method_call].name)
        /\ IsGetPlatformVersion(calls[method_call - 1].name)
        /\ calls[method_call - 1].queries > 0
        /\ ~os_changed )
      => << response' >> = calls[method_call - 1].responses ]_vars

\* Two getPlatformVersion calls in a row were answered on the same
\* operating system state with the same string.
C7_Witness ==
  /\ Len(calls) >= 2
  /\ calls[1].returned /\ calls[2].returned
  /\ IsGetPlatformVersion(calls[1].name)
  /\ IsGetPlatformVersion(calls[2].name)
  /\ calls[1].os = calls[2].os
  /\ ~os_changed
  /\ calls[1].responses = calls[2].responses

\* What two answered calls of the same name have in common.
SameNameSameAnswer(i, j) ==
  /\ calls[i].queries = calls[j].queries
  /\ calls[i].responses[1].kind = calls[j].responses[1].kind
  /\ calls[i].os = calls[j].os => calls[i].responses = calls[j].responses

\* The steps of the method-call callback.
HandlingStep ==
  \/ pc = "idle" /\ pc' = "handle_get_name"
  \/ pc \in { "handle_get_name", "handle_dispatch", "handle_respond", "handle_return" }

\* C8: the response to a call depends on its method name and the operating
\* system state alone, not on its arguments or on earlier calls, and
\* handling a call leaves the plugin object and the channels as they were.
C8_Stateless ==
  /\ [] ( \A i, j \in CallIds :
            ( /\ calls[i].name = calls[j].name
              /\ calls[i].responses # << >>
              /\ calls[j].responses # << >> ) => SameNameSameAnswer(i, j) )
  /\ [][ HandlingStep => UNCHANGED << refs, unrefs, notified, channels >> ]_vars

\* Two getPlatformVersion calls with different arguments were answered alike
\* on the same operating system state.
C8_Witness ==
  \E i, j \in CallIds :
    /\ i < j
    /\ calls[i].returned /\ calls[j].returned
    /\ IsGetPlatformVersion(calls[i].name)
    /\ IsGetPlatformVersion(calls[j].name)
    /\ calls[i].args # calls[j].args
    /\ calls[i].os = calls[j].os
    /\ calls[i].responses = calls[j].responses

\* The handler of channel ch is installed.
Installed(ch) == channels[ch].handler.cb # "NULL"

\* C9: the plugin a handler holds as user data stays alive while the handler
\* is installed: it holds one reference once registration has returned, the
\* destroy notify drops that reference exactly once when the handler is
\* removed, and no object is unreferenced more often than referenced.
C9_PluginAliveWhileInstalled ==
  /\ ~fault
  /\ \A p \in PluginIds : unrefs[p] <= refs[p] /\ notified[p] <= 1
  /\ \A ch \in 1..Len(channels) :
       /\ Installed(ch) =>
            /\ channels[ch].handler.user_data = ch
            /\ channels[ch].handler.destroy_notify = "g_object_unref"
            /\ refcount(ch) >= 1
            /\ notified[ch] = 0
            /\ plugin # ch => refcount(ch) = 1
       /\ (~Installed(ch) /\ channels[ch].installs = 1) =>
            /\ notified[ch] = 1
            /\ refcount(ch) = 0

\* A handler served a call holding its one reference and was then removed.
C9_Witness ==
  /\ Len(channels) >= 1
  /\ ~Installed(1)
  /\ channels[1].installs = 1
  /\ notified[1] = 1
  /\ refs[1] = 2 /\ unrefs[1] = 2
  /\ \E i \in CallIds : calls[i].returned

\* C10: a call is answered inside the callback invocation that received it:
\* when a callback returns its call has been answered, no earlier call is
\* outstanding while a call is handled, and the answers come in the order the
\* calls were delivered.
C10_Synchronous ==
  /\ \A k \in 1..Len(responded) : responded[k] = k
  /\ \A i \in CallIds : calls[i].returned => TimesResponded(i) >= 1
  /\ \A i \in CallIds : i < Len(calls) => calls[i].returned
  /\ method_call # 0 => method_call = Len(calls) /\ ~calls[method_call].returned
  /\ pc = "idle" => /\ method_call = 0
                    /\ \A i \in CallIds : calls[i].returned
                    /\ Len(responded) = Len(calls)

\* Two calls were delivered one after the other and answered in that order.
C10_Witness ==
  /\ pc = "idle"
  /\ Len(calls) >= 2
  /\ calls[1].returned /\ calls[2].returned
  /\ responded[1] = 1 /\ responded[2] = 2

====
